---- MODULE Spec2Model ----
(***************************************************************************)
(* Model of src/mongo_bulk_writer_builder.rs: the BatchUpdateBuilder, its  *)
(* open BatchUpdateContext, the committed WriteOperation sequence, the     *)
(* UpdateType::merge rules and the WriteModel list built by execute().      *)
(*                                                                         *)
(* A Bson value is a record [t |-> tag, v |-> payload].  A Document is a   *)
(* sequence of entries [k |-> key, v |-> value] with pairwise different    *)
(* keys, in insertion order (the crate keeps a Document as an ordered map).*)
(***************************************************************************)
EXTENDS Integers, Sequences, FiniteSets, TLC

VARIABLES
    operations,       \* BatchUpdateBuilder.operations : Vec<WriteOperation<T>>
    current_context,  \* BatchUpdateBuilder.current_context : Option<BatchUpdateContext>
    write_models,     \* the Vec<WriteModel> handed to bulk_write by the last execute()
    executed,         \* number of execute() calls that handed a list to bulk_write
    panicked,         \* TRUE once a call has panicked (the call never returned)
    overflow_checks,  \* build profile: TRUE = integer overflow panics, FALSE = it wraps
    calls,            \* number of builder calls made so far
    last_call,        \* name of the builder call made last
    sessions,         \* per filter document: add_update sessions that received a modifier
    session_counted,  \* the open session is already counted in sessions
    own,              \* per filter (as a field-to-value map): the modifier calls received
    pc,               \* position in the scripted call chain of the mixed-operations scenario
    script,           \* the filters and payloads the scripted call chain uses
    m_self,           \* merge harness: the receiver of UpdateType::merge
    m_other,          \* merge harness: the argument of UpdateType::merge
    m_result,         \* merge harness: the value merge returned
    eq_doc1,          \* documents_equal harness: the first document
    eq_doc2,          \* documents_equal harness: the second document
    eq_result,        \* documents_equal harness: the value documents_equal returned
    upsert_arg        \* monitor: per filter, the argument of the latest upsert
                      \* call made while a context on the filter was open

vars == <<operations, current_context, write_models, executed, panicked,
          overflow_checks, calls, last_call, sessions, session_counted, own,
          pc, script,
          m_self, m_other, m_result,
          eq_doc1, eq_doc2, eq_result, upsert_arg>>

builder_vars == <<operations, current_context, write_models, executed, panicked>>
ghost_vars   == <<sessions, session_counted, own>>
script_vars  == <<pc, script>>
merge_vars   == <<m_self, m_other, m_result>>
equal_vars   == <<eq_doc1, eq_doc2, eq_result>>

-----------------------------------------------------------------------------
(* Bson values and Documents                                               *)

I32Max == 2147483647
I32Min == -I32Max - 1

Int32(n)    == [t |-> "Int32", v |-> n]
Int64(n)    == [t |-> "Int64", v |-> n]
\* A Double holding the integral value n; NaN is the separate value DoubleNaN.
Double(n)   == [t |-> "Double", v |-> n]
DoubleNaN   == [t |-> "NaN", v |-> 0]
BsonBoolean(b) == [t |-> "Boolean", v |-> b]
BsonString(s) == [t |-> "String", v |-> s]
BsonArray(s)  == [t |-> "Array", v |-> s]
BsonDocument(d) == [t |-> "Document", v |-> d]

Entry(key, value) == [k |-> key, v |-> value]
EmptyDoc == << >>

is_empty(doc) == Len(doc) = 0

contains_key(doc, key) == \E i \in DOMAIN doc : doc[i].k = key

\* Document::get, used only where contains_key holds
get(doc, key) == doc[CHOOSE i \in DOMAIN doc : doc[i].k = key].v

\* Document::insert: an existing key keeps its position and takes the new
\* value, a new key is appended.
insert(doc, key, value) ==
    IF contains_key(doc, key)
    THEN [i \in DOMAIN doc |->
            IF doc[i].k = key THEN Entry(key, value) ELSE doc[i]]
    ELSE Append(doc, Entry(key, value))

\* Bson's PartialEq: scalars by tag and value (NaN differs from everything,
\* itself included), arrays element by element in order, nested documents
\* as maps (same length, every key of one in the other with an equal value).
RECURSIVE BsonEq(_, _)
BsonEq(v1, v2) ==
    IF v1.t # v2.t THEN FALSE
    ELSE IF v1.t = "NaN" THEN FALSE
    ELSE IF v1.t = "Array"
         THEN /\ Len(v1.v) = Len(v2.v)
              /\ \A i \in DOMAIN v1.v : BsonEq(v1.v[i], v2.v[i])
    ELSE IF v1.t = "Document"
         THEN /\ Len(v1.v) = Len(v2.v)
              /\ \A i \in DOMAIN v1.v :
                    /\ contains_key(v2.v, v1.v[i].k)
                    /\ BsonEq(v1.v[i].v, get(v2.v, v1.v[i].k))
    ELSE v1.v = v2.v

\* Vec<Bson>::contains
ArrContains(arr, value) == \E i \in DOMAIN arr : BsonEq(arr[i], value)

-----------------------------------------------------------------------------
(* 32-bit integer arithmetic as the build performs it                      *)

AddFits(x, y) ==
    IF y >= 0 THEN x <= I32Max - y ELSE x >= I32Min - y

\* x + y reduced modulo 2^32 into the i32 range, without leaving that range
\* on the way
WrapAdd(x, y) ==
    IF AddFits(x, y) THEN x + y
    ELSE IF y > 0 THEN (x - I32Max - 1) + (y - I32Max - 1)
    ELSE (x + I32Max + 1) + (y + I32Max + 1)

Abs(x) == IF x < 0 THEN -x ELSE x

MulFits(x, y) ==
    IF x = 0 \/ y = 0 THEN TRUE
    ELSE IF x = I32Min THEN y = 1
    ELSE IF y = I32Min THEN x = 1
    ELSE IF (x > 0) = (y > 0)
         THEN Abs(x) <= I32Max \div Abs(y)
         ELSE (Abs(x) - 1) <= (I32Max - (Abs(y) - 1)) \div Abs(y)

\* x * y reduced modulo 2^32 into the i32 range, on 16-bit halves so that no
\* intermediate value leaves the i32 range
Low16(x)  == x % 65536
High16(x) == (x \div 65536) % 65536

\* (p * q) % 65536 for p, q in 0 .. 65535
MulMod16(p, q) == ((((p * (q \div 256)) % 65536) * 256) + (p * (q % 256))) % 65536

WrapMul(x, y) ==
    LET t1 == Low16(x) * (Low16(y) \div 256)
        t2 == Low16(x) * (Low16(y) % 256)
        low_raw == ((t1 % 256) * 256) + t2
        high == ((t1 \div 256) + (low_raw \div 65536)
                 + MulMod16(High16(x), Low16(y))
                 + MulMod16(Low16(x), High16(y))) % 65536
    IN  (IF high >= 32768 THEN high - 65536 ELSE high) * 65536 + (low_raw % 65536)

-----------------------------------------------------------------------------
(* UpdateType and UpdateType::merge                                        *)

Variants == {"Set", "Unset", "SetOnInsert", "Push", "PushEach", "Pull",
             "PullAll", "Pop", "AddToSet", "AddToSetEach", "Inc", "Mul",
             "Min", "Max", "Rename", "CurrentDate", "Bit"}

UpdateType(variant, doc) == [variant |-> variant, doc |-> doc]

Some(value) == [kind |-> "Some", val |-> value]
None  == [kind |-> "None"]
Panic == [kind |-> "Panic"]

\* `for (k, v) in doc2.iter() { .. }` over an accumulator that starts as doc1
\* (merge, lines 105-108 and the same loop in every field-wise arm)
FoldDoc(Step(_, _, _), doc1, doc2) ==
    LET RECURSIVE go(_, _)
        go(merged, i) ==
            IF i > Len(doc2) THEN merged
            ELSE go(Step(merged, doc2[i].k, doc2[i].v), i + 1)
    IN  go(doc1, 1)

\* compare_bson_values: "Less", "Equal", "Greater", or "None"
compare_bson_values(v1, v2) ==
    IF v1.t = v2.t /\ v1.t \in {"Double", "Int32", "Int64"}
    THEN IF v1.v < v2.v THEN "Less"
         ELSE IF v1.v > v2.v THEN "Greater" ELSE "Equal"
    ELSE "None"

\* A variant of OverwriteStep in which a field already present keeps its value.
KeepEarlierStep(merged, k, v) ==
    IF contains_key(merged, k) THEN merged ELSE insert(merged, k, v)

\* A variant of OverwriteStep that joins the two values of a shared field.
CombineStep(merged, k, v) ==
    IF contains_key(merged, k)
    THEN insert(merged, k, BsonArray(<< get(merged, k), v >>))
    ELSE insert(merged, k, v)

\* Set, Unset, SetOnInsert, Pull, Rename, Bit: merged.insert(k, v.clone())
OverwriteStep(merged, k, v) == insert(merged, k, v)

EachDoc(arr) == << Entry("$each", BsonArray(arr)) >>

\* Push, AddToSet: an array becomes { "$each": arr }, anything else is kept
WrapArrayStep(merged, k, v) ==
    IF v.t = "Array"
    THEN insert(merged, k, BsonDocument(EachDoc(v.v)))
    ELSE insert(merged, k, v)

\* new_doc of PushEach / AddToSetEach
NewEachDoc(v) ==
    IF v.t = "Document" /\ contains_key(v.v, "$each") THEN v.v
    ELSE IF v.t = "Array" THEN EachDoc(v.v)
    ELSE EachDoc(<< v >>)

\* d.get("$each").and_then(|v| v.as_array()).unwrap_or(&Vec::new())
EachArray(d) ==
    IF contains_key(d, "$each") /\ get(d, "$each").t = "Array"
    THEN get(d, "$each").v
    ELSE << >>

\* the two loops that re-insert every key other than "$each"
KeepModifierStep(combined, mod_k, mod_v) ==
    IF mod_k # "$each" THEN insert(combined, mod_k, mod_v) ELSE combined

\* A variant of ExtendArr that puts the incoming elements first.
ExtendArrInFront(existing_arr, new_arr) == new_arr \o existing_arr

\* merged_arr.extend(new_arr)
ExtendArr(existing_arr, new_arr) == existing_arr \o new_arr

\* for new_v in new_arr { if !merged_arr.contains(&new_v) { push } }
RECURSIVE ExtendUnique(_, _)
ExtendUnique(merged_arr, new_arr) ==
    IF Len(new_arr) = 0 THEN merged_arr
    ELSE ExtendUnique(
            IF ArrContains(merged_arr, Head(new_arr)) THEN merged_arr
            ELSE Append(merged_arr, Head(new_arr)),
            Tail(new_arr))

\* loop body of the PushEach (lines 222-265) and AddToSetEach (lines 363-411)
\* arms; Combine is the arm's way of joining the two $each arrays
EachStep(Combine(_, _), merged, k, v) ==
    LET new_doc == NewEachDoc(v) IN
    IF contains_key(merged, k) /\ get(merged, k).t = "Document"
    THEN LET existing == get(merged, k).v
             merged_arr == Combine(EachArray(existing), EachArray(new_doc))
             c0 == insert(existing, "$each", BsonArray(merged_arr))
             c1 == FoldDoc(KeepModifierStep, c0, existing)
             c2 == FoldDoc(KeepModifierStep, c1, new_doc)
         IN  insert(merged, k, BsonDocument(c2))
    ELSE insert(merged, k, BsonDocument(new_doc))

PushEachStep(merged, k, v) == EachStep(ExtendArr, merged, k, v)

AddToSetEachStep(merged, k, v) == EachStep(ExtendUnique, merged, k, v)

\* A variant of PullAllStep that leaves out the incoming values already there.
PullAllStepUnique(merged, k, v) ==
    IF contains_key(merged, k) /\ get(merged, k).t = "Array" /\ v.t = "Array"
    THEN insert(merged, k, BsonArray(ExtendUnique(get(merged, k).v, v.v)))
    ELSE insert(merged, k, v)

\* loop body of the PullAll arm (lines 289-297)
PullAllStep(merged, k, v) ==
    IF contains_key(merged, k) /\ get(merged, k).t = "Array" /\ v.t = "Array"
    THEN insert(merged, k, BsonArray(get(merged, k).v \o v.v))
    ELSE insert(merged, k, v)

\* A variant of MinStep that takes the incoming value when it is the larger.
MinStepOnGreater(merged, k, v) ==
    IF contains_key(merged, k)
    THEN IF compare_bson_values(v, get(merged, k)) = "Greater"
         THEN insert(merged, k, v) ELSE merged
    ELSE insert(merged, k, v)

\* loop body of the Min arm (lines 453-461)
MinStep(merged, k, v) ==
    IF contains_key(merged, k)
    THEN IF compare_bson_values(v, get(merged, k)) = "Less"
         THEN insert(merged, k, v) ELSE merged
    ELSE insert(merged, k, v)

MaxStep(merged, k, v) ==
    IF contains_key(merged, k)
    THEN IF compare_bson_values(v, get(merged, k)) = "Greater"
         THEN insert(merged, k, v) ELSE merged
    ELSE insert(merged, k, v)

\* Inc and Mul carry [d |-> merged, p |-> a panic happened] through the loop:
\* `existing + new_value` on i32 panics when overflow_checks is on and the
\* sum is out of range, and wraps otherwise.  Int64 and Double payloads of
\* the model stay far inside their range.  (merge, lines 416-447)
ArithStep(Fits(_, _), Wrap(_, _), Exact(_, _), acc, k, v) ==
    IF acc.p THEN acc
    ELSE IF ~contains_key(acc.d, k) THEN [acc EXCEPT !.d = insert(acc.d, k, v)]
    ELSE LET existing == get(acc.d, k) IN
         IF existing.t = "Double" /\ v.t = "Double"
         THEN [acc EXCEPT !.d = insert(acc.d, k, Double(Exact(existing.v, v.v)))]
         ELSE IF existing.t = "Int32" /\ v.t = "Int32"
         THEN IF Fits(existing.v, v.v)
              THEN [acc EXCEPT !.d = insert(acc.d, k, Int32(Exact(existing.v, v.v)))]
              ELSE IF overflow_checks THEN [acc EXCEPT !.p = TRUE]
              ELSE [acc EXCEPT !.d = insert(acc.d, k, Int32(Wrap(existing.v, v.v)))]
         ELSE IF existing.t = "Int64" /\ v.t = "Int64"
         THEN [acc EXCEPT !.d = insert(acc.d, k, Int64(Exact(existing.v, v.v)))]
         ELSE [acc EXCEPT !.d = insert(acc.d, k, v)]

Plus(x, y)  == x + y
Times(x, y) == x * y

IncStep(acc, k, v) == ArithStep(AddFits, WrapAdd, Plus, acc, k, v)

MulStep(acc, k, v) == ArithStep(MulFits, WrapMul, Times, acc, k, v)

\* the Inc arm (lines 416-430) and the Mul arm (lines 433-447)
ArithMerge(Step(_, _, _), variant, doc1, doc2) ==
    LET out == FoldDoc(Step, [d |-> doc1, p |-> FALSE], doc2)
    IN  IF out.p THEN Panic ELSE Some(UpdateType(variant, out.d))

\* an arm that clones doc1, loops over doc2 and returns Some (lines 104-110)
FieldMerge(Step(_, _, _), variant, doc1, doc2) ==
    Some(UpdateType(variant, FoldDoc(Step, doc1, doc2)))

\* A variant of ReplaceMerge that keeps the fields of doc1 absent from doc2.
ReplaceMergeKeepsFields(variant, doc1, doc2) ==
    Some(UpdateType(variant, FoldDoc(OverwriteStep, doc1, doc2)))

\* the Pop arm (lines 302-304) and the CurrentDate arm (lines 493-495)
ReplaceMerge(variant, doc1, doc2) == Some(UpdateType(variant, doc2))

\* UpdateType::merge(&self, other) -> Option<UpdateType>
merge(self, other) ==
    IF self.variant # other.variant THEN None
    ELSE LET variant == self.variant
             doc1 == self.doc
             doc2 == other.doc
         IN CASE variant \in {"Set", "Unset", "SetOnInsert", "Pull", "Rename", "Bit"}
                    -> FieldMerge(OverwriteStep, variant, doc1, doc2)
              [] variant \in {"Push", "AddToSet"}
                    -> FieldMerge(WrapArrayStep, variant, doc1, doc2)
              [] variant = "PushEach"
                    -> FieldMerge(PushEachStep, variant, doc1, doc2)
              [] variant = "AddToSetEach"
                    -> FieldMerge(AddToSetEachStep, variant, doc1, doc2)
              [] variant = "PullAll"
                    -> FieldMerge(PullAllStep, variant, doc1, doc2)
              [] variant \in {"Pop", "CurrentDate"}
                    -> ReplaceMerge(variant, doc1, doc2)
              [] variant = "Inc"
                    -> ArithMerge(IncStep, variant, doc1, doc2)
              [] variant = "Mul"
                    -> ArithMerge(MulStep, variant, doc1, doc2)
              [] variant = "Min"
                    -> FieldMerge(MinStep, variant, doc1, doc2)
              [] variant = "Max"
                    -> FieldMerge(MaxStep, variant, doc1, doc2)

\* UpdateType::to_document: the operator name the variant is filed under
OperatorName(variant) ==
    CASE variant = "Set" -> "$set"
      [] variant = "Unset" -> "$unset"
      [] variant = "SetOnInsert" -> "$setOnInsert"
      [] variant = "Push" -> "$push"
      [] variant = "PushEach" -> "$push"
      [] variant = "Pull" -> "$pull"
      [] variant = "PullAll" -> "$pullAll"
      [] variant = "Pop" -> "$pop"
      [] variant = "AddToSet" -> "$addToSet"
      [] variant = "AddToSetEach" -> "$addToSet"
      [] variant = "Inc" -> "$inc"
      [] variant = "Mul" -> "$mul"
      [] variant = "Min" -> "$min"
      [] variant = "Max" -> "$max"
      [] variant = "Rename" -> "$rename"
      [] variant = "CurrentDate" -> "$currentDate"
      [] variant = "Bit" -> "$bit"

to_document(update) ==
    << Entry(OperatorName(update.variant), BsonDocument(update.doc)) >>

-----------------------------------------------------------------------------
(* WriteOperation, BatchUpdateContext, WriteModel                          *)

UpdateOne(filter, updates, upsert) ==
    [op |-> "UpdateOne", filter |-> filter, updates |-> updates, upsert |-> upsert]
DeleteOne(filter)  == [op |-> "DeleteOne", filter |-> filter]
DeleteMany(filter) == [op |-> "DeleteMany", filter |-> filter]
InsertOne(document) == [op |-> "InsertOne", document |-> document]

BatchUpdateContext(filter, updates, is_upsert) ==
    [filter |-> filter, updates |-> updates, is_upsert |-> is_upsert]

UpdateOneModel(filter, update, upsert) ==
    [model |-> "UpdateOne", filter |-> filter, update |-> update, upsert |-> upsert]
DeleteOneModel(filter)  == [model |-> "DeleteOne", filter |-> filter]
DeleteManyModel(filter) == [model |-> "DeleteMany", filter |-> filter]
InsertOneModel(document) == [model |-> "InsertOne", document |-> document]

\* A record of type T is [id |-> n, ok |-> whether it serializes to a document].
\* bson::to_document(document): Some(document) or None for the Err case.
bson_to_document(document) ==
    IF document.ok THEN Some(<< Entry("_id", Int32(document.id)) >>) ELSE None

-----------------------------------------------------------------------------
(* BatchUpdateBuilder                                                      *)

\* A variant of commit_context without the check on the modifier list.
commit_context_unchecked(ops, context) ==
    IF context.kind = "Some"
    THEN Append(ops, UpdateOne(context.val.filter, context.val.updates,
                               context.val.is_upsert))
    ELSE ops

\* commit_context: the operations after self.current_context.take()
commit_context(ops, context) ==
    IF context.kind = "Some" /\ Len(context.val.updates) > 0
    THEN Append(ops, UpdateOne(context.val.filter, context.val.updates,
                               context.val.is_upsert))
    ELSE ops

\* A variant of documents_equal that compares the entries position by position.
documents_equal_in_order(doc1, doc2) ==
    /\ Len(doc1) = Len(doc2)
    /\ \A i \in DOMAIN doc1 :
          /\ doc1[i].k = doc2[i].k
          /\ BsonEq(doc1[i].v, doc2[i].v)

\* documents_equal(doc1, doc2)
documents_equal(doc1, doc2) ==
    /\ Len(doc1) = Len(doc2)
    /\ \A i \in DOMAIN doc1 :
          /\ contains_key(doc2, doc1[i].k)
          /\ BsonEq(doc1[i].v, get(doc2, doc1[i].k))

\* A variant of position that takes the first UpdateOne whatever its filter.
position_any_update(ops, filter) ==
    LET hits == {i \in DOMAIN ops : ops[i].op = "UpdateOne"}
    IN  IF hits = {} THEN 0
        ELSE CHOOSE i \in hits : \A j \in hits : i <= j

\* self.operations.iter().position(..): 0 when there is none
position(ops, filter) ==
    LET hits == {i \in DOMAIN ops :
                    /\ ops[i].op = "UpdateOne"
                    /\ documents_equal(ops[i].filter, filter)}
    IN  IF hits = {} THEN 0
        ELSE CHOOSE i \in hits : \A j \in hits : i <= j

\* A variant of remove that leaves the vector as it is (a clone of the entry
\* is taken instead of the entry).
remove_nothing(ops, index) == ops

\* A variant of remove that also drops every entry behind the index.
remove_truncates(ops, index) == SubSeq(ops, 1, index - 1)

\* A variant of remove that takes out the first entry whatever the index.
remove_first(ops, index) == Tail(ops)

\* Vec::remove(index)
remove(ops, index) ==
    [i \in 1 .. (Len(ops) - 1) |-> IF i < index THEN ops[i] ELSE ops[i + 1]]

\* A variant of add_update_type that never merges: the new update is pushed.
add_update_type_push_only(updates, new_update) ==
    Some(Append(updates, new_update))

\* A variant of add_update_type that moves the merged entry to the end.
add_update_type_merged_last(updates, new_update) ==
    LET RECURSIVE try(_)
        try(i) ==
            IF i > Len(updates) THEN Some(Append(updates, new_update))
            ELSE LET merged_update == merge(updates[i], new_update) IN
                 IF merged_update.kind = "None" THEN try(i + 1)
                 ELSE IF merged_update.kind = "Panic" THEN Panic
                 ELSE Some(Append(remove(updates, i), merged_update.val))
    IN  try(1)

\* BatchUpdateContext::add_update_type: Some(the new updates) or Panic
add_update_type(updates, new_update) ==
    LET RECURSIVE try(_)
        try(i) ==
            IF i > Len(updates) THEN Some(Append(updates, new_update))
            ELSE LET merged_update == merge(updates[i], new_update) IN
                 IF merged_update.kind = "None" THEN try(i + 1)
                 ELSE IF merged_update.kind = "Panic" THEN Panic
                 ELSE Some([updates EXCEPT ![i] = merged_update.val])
    IN  try(1)

\* A variant of add_update that re-opens a context with the upsert flag unset.
add_update_resets_upsert(filter) ==
    LET ops == commit_context(operations, current_context)
        index == position(ops, filter)
    IN  /\ operations' = IF index = 0 THEN ops ELSE remove(ops, index)
        /\ current_context' =
              IF index = 0
              THEN Some(BatchUpdateContext(filter, << >>, FALSE))
              ELSE Some(BatchUpdateContext(filter, ops[index].updates, FALSE))
        /\ UNCHANGED <<write_models, executed, panicked>>

\* pub fn add_update(&mut self, filter)
add_update(filter) ==
    LET ops == commit_context(operations, current_context)
        index == position(ops, filter)
    IN  /\ operations' = IF index = 0 THEN ops ELSE remove(ops, index)
        /\ current_context' =
              IF index = 0
              THEN Some(BatchUpdateContext(filter, << >>, FALSE))
              ELSE Some(BatchUpdateContext(filter, ops[index].updates,
                                           ops[index].upsert))
        /\ UNCHANGED <<write_models, executed, panicked>>

\* A variant of modifier that opens a context on the empty filter when none
\* is open.
modifier_opens_context(variant, doc) ==
    /\ current_context' =
          IF current_context.kind = "None"
          THEN Some(BatchUpdateContext(EmptyDoc, << UpdateType(variant, doc) >>,
                                       FALSE))
          ELSE Some([current_context.val EXCEPT
                        !.updates = Append(@, UpdateType(variant, doc))])
    /\ UNCHANGED <<operations, write_models, executed, panicked>>

\* the body shared by set, unset, .., bit:
\* if let Some(context) = &mut self.current_context { context.add_update_type(..) }
modifier(variant, doc) ==
    IF current_context.kind = "None"
    THEN UNCHANGED builder_vars
    ELSE \E out \in {add_update_type(current_context.val.updates,
                                      UpdateType(variant, doc))} :
            IF out.kind = "Panic"
            THEN /\ panicked' = TRUE
                 /\ UNCHANGED <<operations, current_context, write_models, executed>>
            ELSE /\ current_context' =
                        Some([current_context.val EXCEPT !.updates = out.val])
                 /\ UNCHANGED <<operations, write_models, executed, panicked>>

set(doc)             == modifier("Set", doc)
unset(doc)           == modifier("Unset", doc)
set_on_insert(doc)   == modifier("SetOnInsert", doc)
push(doc)            == modifier("Push", doc)
push_each(doc)       == modifier("PushEach", doc)
pull(doc)            == modifier("Pull", doc)
pull_all(doc)        == modifier("PullAll", doc)
pop(doc)             == modifier("Pop", doc)
add_to_set(doc)      == modifier("AddToSet", doc)
add_to_set_each(doc) == modifier("AddToSetEach", doc)
inc(doc)             == modifier("Inc", doc)
mul(doc)             == modifier("Mul", doc)
min(doc)             == modifier("Min", doc)
max(doc)             == modifier("Max", doc)
rename(doc)          == modifier("Rename", doc)
current_date(doc)    == modifier("CurrentDate", doc)
bit(doc)             == modifier("Bit", doc)

\* A variant of upsert that sets the flag whatever the argument.
upsert_ignores_argument(flag) ==
    /\ current_context' =
          IF current_context.kind = "None" THEN current_context
          ELSE Some([current_context.val EXCEPT !.is_upsert = TRUE])
    /\ UNCHANGED <<operations, write_models, executed, panicked>>

\* pub fn upsert(&mut self, upsert: bool)
upsert(flag) ==
    /\ current_context' =
          IF current_context.kind = "None" THEN current_context
          ELSE Some([current_context.val EXCEPT !.is_upsert = flag])
    /\ UNCHANGED <<operations, write_models, executed, panicked>>

\* A variant of terminal that drops the open context instead of committing it.
terminal_without_commit(operation) ==
    /\ operations' = Append(operations, operation)
    /\ current_context' = None
    /\ UNCHANGED <<write_models, executed, panicked>>

\* the body shared by delete, delete_many and insert
terminal(operation) ==
    /\ operations' = Append(commit_context(operations, current_context), operation)
    /\ current_context' = None
    /\ UNCHANGED <<write_models, executed, panicked>>

delete(filter)      == terminal(DeleteOne(filter))
delete_many(filter) == terminal(DeleteMany(filter))
insert_one(document) == terminal(InsertOne(document))

\* A variant of build that reads the context without taking it.
build_keeps_context ==
    /\ operations' = commit_context(operations, current_context)
    /\ UNCHANGED <<current_context, write_models, executed, panicked>>

\* pub fn build(&mut self)
build ==
    /\ operations' = commit_context(operations, current_context)
    /\ current_context' = None
    /\ UNCHANGED <<write_models, executed, panicked>>

\* the update document of an UpdateOne: every to_document() entry inserted
\* into one Document
RECURSIVE update_doc(_)
update_doc(updates) ==
    IF Len(updates) = 0 THEN EmptyDoc
    ELSE FoldDoc(OverwriteStep,
                 update_doc(SubSeq(updates, 1, Len(updates) - 1)),
                 to_document(updates[Len(updates)]))

\* A variant of write_model without the empty-filter guard on updates.
write_model_unguarded(operation) ==
    CASE operation.op = "UpdateOne" ->
            IF Len(operation.updates) > 0
            THEN Some(UpdateOneModel(operation.filter,
                                     update_doc(operation.updates),
                                     operation.upsert))
            ELSE None
      [] operation.op = "DeleteOne" -> Some(DeleteOneModel(operation.filter))
      [] operation.op = "DeleteMany" -> Some(DeleteManyModel(operation.filter))
      [] operation.op = "InsertOne" ->
            Some(InsertOneModel(bson_to_document(operation.document).val))

\* the closure given to filter_map: Some(WriteModel) or None.  An InsertOne
\* whose record does not serialize makes unwrap() panic: see execute.
write_model(operation) ==
    CASE operation.op = "UpdateOne" ->
            IF ~is_empty(operation.filter) /\ Len(operation.updates) > 0
            THEN Some(UpdateOneModel(operation.filter,
                                     update_doc(operation.updates),
                                     operation.upsert))
            ELSE None
      [] operation.op = "DeleteOne" ->
            IF ~is_empty(operation.filter)
            THEN Some(DeleteOneModel(operation.filter)) ELSE None
      [] operation.op = "DeleteMany" ->
            IF ~is_empty(operation.filter)
            THEN Some(DeleteManyModel(operation.filter)) ELSE None
      [] operation.op = "InsertOne" ->
            Some(InsertOneModel(bson_to_document(operation.document).val))

\* A variant of filter_map that collects the models last to first.
RECURSIVE filter_map_reversed(_)
filter_map_reversed(ops) ==
    IF Len(ops) = 0 THEN << >>
    ELSE LET out == write_model(Head(ops))
         IN  IF out.kind = "Some"
             THEN filter_map_reversed(Tail(ops)) \o << out.val >>
             ELSE filter_map_reversed(Tail(ops))

\* A variant of filter_map that ends the list at the first intent without
\* a model (map_while in place of filter_map).
RECURSIVE filter_map_until_none(_)
filter_map_until_none(ops) ==
    IF Len(ops) = 0 THEN << >>
    ELSE LET out == write_model(Head(ops))
         IN  IF out.kind = "Some"
             THEN << out.val >> \o filter_map_until_none(Tail(ops))
             ELSE << >>

\* self.operations.iter().filter_map(..).collect()
RECURSIVE filter_map(_)
filter_map(ops) ==
    IF Len(ops) = 0 THEN << >>
    ELSE LET out == write_model(Head(ops))
         IN  IF out.kind = "Some"
             THEN << out.val >> \o filter_map(Tail(ops))
             ELSE filter_map(Tail(ops))

unwrap_panics(ops) ==
    \E i \in DOMAIN ops :
        /\ ops[i].op = "InsertOne"
        /\ bson_to_document(ops[i].document).kind = "None"

\* A variant of execute that leaves out self.build().
execute_without_build ==
    /\ UNCHANGED <<operations, current_context>>
    /\ IF unwrap_panics(operations)
       THEN /\ panicked' = TRUE
            /\ UNCHANGED <<write_models, executed>>
       ELSE /\ write_models' = filter_map(operations)
            /\ executed' = executed + 1
            /\ UNCHANGED panicked

\* pub fn execute(&mut self): build(), then the WriteModel list goes to
\* bulk_write; operations is read through iter() and stays as it is.
execute ==
    LET ops == commit_context(operations, current_context)
    IN  /\ operations' = ops
        /\ current_context' = None
        /\ IF unwrap_panics(ops)
           THEN /\ panicked' = TRUE
                /\ UNCHANGED <<write_models, executed>>
           ELSE /\ write_models' = filter_map(ops)
                /\ executed' = executed + 1
                /\ UNCHANGED panicked

-----------------------------------------------------------------------------
(* Inputs of the builder specification                                     *)

MaxCalls == 5

Doc1(k1, v1) == << Entry(k1, v1) >>
Doc2(k1, v1, k2, v2) == << Entry(k1, v1), Entry(k2, v2) >>

FilterA1   == Doc1("a", Int32(1))
FilterA2   == Doc1("a", Int32(2))
FilterA1B2 == Doc2("a", Int32(1), "b", Int32(2))
FilterB2A1 == Doc2("b", Int32(2), "a", Int32(1))

Filters == {EmptyDoc, FilterA1, FilterA2, FilterA1B2, FilterB2A1}

SetDocs == {Doc1("x", Int32(1)), Doc1("y", Int32(2))}
IncDocs == {Doc1("n", Int32(1)), Doc1("n", Int32(I32Max))}

Records == {[id |-> 1, ok |-> TRUE], [id |-> 2, ok |-> FALSE]}

\* A filter of the model as the set of its field-value pairs: two filters
\* with scalar values are structurally equal iff these sets are equal.
AsMap(doc) == {<<doc[i].k, doc[i].v>> : i \in DOMAIN doc}

FilterMaps == {AsMap(f) : f \in Filters}

\* the keys of a document
Keys(doc) == {doc[i].k : i \in DOMAIN doc}

Pending == [kind |-> "Pending"]

InitBuilder ==
    /\ operations = << >>
    /\ current_context = None
    /\ write_models = << >>
    /\ executed = 0
    /\ panicked = FALSE

InitMonitors ==
    /\ calls = 0
    /\ last_call = "new"
    /\ sessions = [f \in Filters |-> 0]
    /\ session_counted = FALSE
    /\ own = [c \in FilterMaps |-> << >>]
    /\ upsert_arg = [c \in FilterMaps |-> None]

InitNoScript ==
    /\ pc = 0
    /\ script = << >>

InitNoMerge ==
    /\ m_self = Pending
    /\ m_other = Pending
    /\ m_result = Pending

InitNoEqual ==
    /\ eq_doc1 = Pending
    /\ eq_doc2 = Pending
    /\ eq_result = Pending

Init ==
    /\ InitBuilder
    /\ InitMonitors
    /\ InitNoScript
    /\ InitNoMerge
    /\ InitNoEqual
    /\ overflow_checks \in BOOLEAN

\* One builder call: a panicked chain makes no further call.
Call(name) ==
    /\ ~panicked
    /\ calls < MaxCalls
    /\ calls' = calls + 1
    /\ last_call' = name
    /\ UNCHANGED <<overflow_checks, script_vars, merge_vars, equal_vars,
                   upsert_arg>>

\* The monitors after a modifier call: the call is logged under the open
\* context's filter unless there is no open context or the call panicked.
LogModifier(variant, doc) ==
    IF current_context.kind = "Some" /\ ~panicked'
    THEN LET filter == current_context.val.filter IN
         /\ own' = [own EXCEPT ![AsMap(filter)] =
                        Append(@, UpdateType(variant, doc))]
         /\ sessions' = IF session_counted THEN sessions
                        ELSE [sessions EXCEPT ![filter] = @ + 1]
         /\ session_counted' = TRUE
    ELSE UNCHANGED ghost_vars

CallAddUpdate ==
    \E filter \in Filters :
        /\ Call("add_update")
        /\ add_update(filter)
        /\ session_counted' = FALSE
        /\ UNCHANGED <<sessions, own>>

CallSet ==
    \E doc \in SetDocs :
        Call("set") /\ set(doc) /\ LogModifier("Set", doc)

CallInc ==
    \E doc \in IncDocs :
        Call("inc") /\ inc(doc) /\ LogModifier("Inc", doc)

CallUpsert ==
    \E flag \in BOOLEAN :
        Call("upsert") /\ upsert(flag) /\ UNCHANGED ghost_vars

CallDelete ==
    \E filter \in {EmptyDoc, FilterA1} :
        /\ Call("delete") /\ delete(filter)
        /\ session_counted' = FALSE /\ UNCHANGED <<sessions, own>>

CallDeleteMany ==
    \E filter \in {EmptyDoc, FilterA1B2} :
        /\ Call("delete_many") /\ delete_many(filter)
        /\ session_counted' = FALSE /\ UNCHANGED <<sessions, own>>

CallInsert ==
    \E document \in Records :
        /\ Call("insert") /\ insert_one(document)
        /\ session_counted' = FALSE /\ UNCHANGED <<sessions, own>>

CallBuild ==
    /\ Call("build") /\ build
    /\ session_counted' = FALSE /\ UNCHANGED <<sessions, own>>

CallExecute ==
    /\ Call("execute") /\ execute
    /\ session_counted' = FALSE /\ UNCHANGED <<sessions, own>>

Next ==
    \/ CallAddUpdate
    \/ CallSet
    \/ CallInc
    \/ CallUpsert
    \/ CallDelete
    \/ CallDeleteMany
    \/ CallInsert
    \/ CallBuild
    \/ CallExecute

Spec == Init /\ [][Next]_vars

-----------------------------------------------------------------------------
(* The builder specification with the upsert calls recorded                *)

\* upsert(flag), the argument recorded under the open context's filter
CallUpsertRecorded ==
    \E flag \in BOOLEAN :
        /\ ~panicked
        /\ calls < MaxCalls
        /\ calls' = calls + 1
        /\ last_call' = "upsert"
        /\ upsert(flag)
        /\ upsert_arg' =
              IF current_context.kind = "Some"
              THEN [upsert_arg EXCEPT
                        ![AsMap(current_context.val.filter)] = Some(flag)]
              ELSE upsert_arg
        /\ UNCHANGED <<overflow_checks, script_vars, merge_vars, equal_vars,
                       ghost_vars>>

NextUpsert ==
    \/ CallAddUpdate
    \/ CallSet
    \/ CallInc
    \/ CallUpsertRecorded
    \/ CallDelete
    \/ CallDeleteMany
    \/ CallInsert
    \/ CallBuild
    \/ CallExecute

SpecUpsert == Init /\ [][NextUpsert]_vars

-----------------------------------------------------------------------------
(* The mixed-operations call chain                                         *)
(*   add_update(A).set(s1).delete(B).add_update(C).set(s2) ; execute()     *)
(* on a new builder, for pairwise structurally different non-empty A, B, C *)

ScriptFilters == Filters \ {EmptyDoc}

Scripts ==
    {sc \in [A : ScriptFilters, B : ScriptFilters, C : ScriptFilters,
             s1 : SetDocs, s2 : SetDocs] :
        /\ AsMap(sc.A) # AsMap(sc.B)
        /\ AsMap(sc.B) # AsMap(sc.C)
        /\ AsMap(sc.A) # AsMap(sc.C)}

InitMixed ==
    /\ InitBuilder
    /\ InitMonitors
    /\ InitNoMerge
    /\ InitNoEqual
    /\ overflow_checks \in BOOLEAN
    /\ pc = 0
    /\ script \in Scripts

\* the n-th call of the chain
ChainStep(n, name) ==
    /\ pc = n
    /\ ~panicked
    /\ pc' = n + 1
    /\ last_call' = name
    /\ UNCHANGED <<overflow_checks, calls, ghost_vars, script, merge_vars,
                   equal_vars, upsert_arg>>

MixedAddUpdateA == ChainStep(0, "add_update") /\ add_update(script.A)
MixedSet1       == ChainStep(1, "set") /\ set(script.s1)
MixedDeleteB    == ChainStep(2, "delete") /\ delete(script.B)
MixedAddUpdateC == ChainStep(3, "add_update") /\ add_update(script.C)
MixedSet2       == ChainStep(4, "set") /\ set(script.s2)
MixedExecute    == ChainStep(5, "execute") /\ execute

NextMixed ==
    \/ MixedAddUpdateA
    \/ MixedSet1
    \/ MixedDeleteB
    \/ MixedAddUpdateC
    \/ MixedSet2
    \/ MixedExecute

SpecMixed == InitMixed /\ [][NextMixed]_vars

SetOperatorDoc(doc) == << Entry("$set", BsonDocument(doc)) >>

\* C4: the chain compiles to exactly update(A), delete(B), update(C), in
\* that order; the last update is there without an explicit build().
C4_MixedChainCompiles ==
    pc = 6 =>
        /\ ~panicked
        /\ write_models =
              << UpdateOneModel(script.A, SetOperatorDoc(script.s1), FALSE),
                 DeleteOneModel(script.B),
                 UpdateOneModel(script.C, SetOperatorDoc(script.s2), FALSE) >>

\* C4 witness: the chain has run to its end with A = {a:1, b:2}, B = {a:2},
\* C = {a:1} and three models were handed over.
C4_Witness ==
    /\ pc = 6
    /\ script.A = FilterA1B2 /\ script.B = FilterA2 /\ script.C = FilterA1
    /\ Len(write_models) = 3
    /\ write_models[3].model = "UpdateOne"
    /\ current_context = None

-----------------------------------------------------------------------------
(* The builder with all seventeen modifier methods                         *)

MaxAllCalls == 4

Str(s) == BsonString(s)
Arr1(x) == BsonArray(<< Str(x) >>)
Arr2(x, y) == BsonArray(<< Str(x), Str(y) >>)

\* the payloads each modifier method is called with
Payloads(variant) ==
    CASE variant = "Set" -> {Doc1("x", Int32(1)), Doc1("y", Int32(2))}
      [] variant = "Unset" -> {Doc1("x", Str(""))}
      [] variant = "SetOnInsert" -> {Doc1("x", Int32(1))}
      [] variant = "Push" -> {Doc1("tags", Str("a")), Doc1("tags", Arr2("a", "b"))}
      [] variant = "PushEach" ->
            {Doc1("tags", Arr2("y", "z")),
             Doc1("tags", BsonDocument(EachDoc(<< Str("x") >>)))}
      [] variant = "Pull" -> {Doc1("tags", Str("a"))}
      [] variant = "PullAll" -> {Doc1("tags", Arr1("a"))}
      [] variant = "Pop" -> {Doc1("tags", Int32(1)), Doc1("list", Int32(-1))}
      [] variant = "AddToSet" -> {Doc1("tags", Str("a")), Doc1("tags", Arr2("a", "b"))}
      [] variant = "AddToSetEach" ->
            {Doc1("tags", Arr1("a")), Doc1("tags", Arr2("b", "a")),
             Doc1("tags", Arr2("a", "a"))}
      [] variant = "Inc" -> {Doc1("n", Int32(1)), Doc1("n", Int32(I32Max))}
      [] variant = "Mul" -> {Doc1("n", Int32(2))}
      [] variant = "Min" -> {Doc1("n", Int32(1)), Doc1("n", Int32(2))}
      [] variant = "Max" -> {Doc1("n", Int32(1)), Doc1("n", Int32(2))}
      [] variant = "Rename" -> {Doc1("x", Str("y"))}
      [] variant = "CurrentDate" -> {Doc1("d", BsonBoolean(TRUE))}
      [] variant = "Bit" -> {Doc1("n", BsonDocument(Doc1("and", Int32(1))))}

AllFilters == {FilterA1, FilterA2}

AllCall(name) ==
    /\ ~panicked
    /\ calls < MaxAllCalls
    /\ calls' = calls + 1
    /\ last_call' = name
    /\ UNCHANGED <<overflow_checks, script_vars, merge_vars, equal_vars,
                   upsert_arg>>

AllAddUpdate ==
    \E filter \in AllFilters :
        /\ AllCall("add_update")
        /\ add_update(filter)
        /\ session_counted' = FALSE
        /\ UNCHANGED <<sessions, own>>

AllSet ==
    \E doc \in Payloads("Set") :
        AllCall("set") /\ set(doc) /\ LogModifier("Set", doc)
AllUnset ==
    \E doc \in Payloads("Unset") :
        AllCall("unset") /\ unset(doc) /\ LogModifier("Unset", doc)
AllSetOnInsert ==
    \E doc \in Payloads("SetOnInsert") :
        AllCall("set_on_insert") /\ set_on_insert(doc) /\ LogModifier("SetOnInsert", doc)
AllPush ==
    \E doc \in Payloads("Push") :
        AllCall("push") /\ push(doc) /\ LogModifier("Push", doc)
AllPushEach ==
    \E doc \in Payloads("PushEach") :
        AllCall("push_each") /\ push_each(doc) /\ LogModifier("PushEach", doc)
AllPull ==
    \E doc \in Payloads("Pull") :
        AllCall("pull") /\ pull(doc) /\ LogModifier("Pull", doc)
AllPullAll ==
    \E doc \in Payloads("PullAll") :
        AllCall("pull_all") /\ pull_all(doc) /\ LogModifier("PullAll", doc)
AllPop ==
    \E doc \in Payloads("Pop") :
        AllCall("pop") /\ pop(doc) /\ LogModifier("Pop", doc)
AllAddToSet ==
    \E doc \in Payloads("AddToSet") :
        AllCall("add_to_set") /\ add_to_set(doc) /\ LogModifier("AddToSet", doc)
AllAddToSetEach ==
    \E doc \in Payloads("AddToSetEach") :
        AllCall("add_to_set_each") /\ add_to_set_each(doc) /\ LogModifier("AddToSetEach", doc)
AllInc ==
    \E doc \in Payloads("Inc") :
        AllCall("inc") /\ inc(doc) /\ LogModifier("Inc", doc)
AllMul ==
    \E doc \in Payloads("Mul") :
        AllCall("mul") /\ mul(doc) /\ LogModifier("Mul", doc)
AllMin ==
    \E doc \in Payloads("Min") :
        AllCall("min") /\ min(doc) /\ LogModifier("Min", doc)
AllMax ==
    \E doc \in Payloads("Max") :
        AllCall("max") /\ max(doc) /\ LogModifier("Max", doc)
AllRename ==
    \E doc \in Payloads("Rename") :
        AllCall("rename") /\ rename(doc) /\ LogModifier("Rename", doc)
AllCurrentDate ==
    \E doc \in Payloads("CurrentDate") :
        AllCall("current_date") /\ current_date(doc) /\ LogModifier("CurrentDate", doc)
AllBit ==
    \E doc \in Payloads("Bit") :
        AllCall("bit") /\ bit(doc) /\ LogModifier("Bit", doc)

AllUpsert ==
    \E flag \in BOOLEAN :
        AllCall("upsert") /\ upsert(flag) /\ UNCHANGED ghost_vars

AllBuild ==
    /\ AllCall("build") /\ build
    /\ session_counted' = FALSE /\ UNCHANGED <<sessions, own>>

AllExecute ==
    /\ AllCall("execute") /\ execute
    /\ session_counted' = FALSE /\ UNCHANGED <<sessions, own>>

NextAll ==
    \/ AllAddUpdate
    \/ AllSet
    \/ AllUnset
    \/ AllSetOnInsert
    \/ AllPush
    \/ AllPushEach
    \/ AllPull
    \/ AllPullAll
    \/ AllPop
    \/ AllAddToSet
    \/ AllAddToSetEach
    \/ AllInc
    \/ AllMul
    \/ AllMin
    \/ AllMax
    \/ AllRename
    \/ AllCurrentDate
    \/ AllBit
    \/ AllUpsert
    \/ AllBuild
    \/ AllExecute

SpecAll == Init /\ [][NextAll]_vars

\* no two entries of an updates list are of the same variant
Collapsed(updates) ==
    \A i, j \in DOMAIN updates :
        i # j => updates[i].variant # updates[j].variant

\* C6: the updates list of the open context and of every committed UpdateOne
\* holds at most one entry of each UpdateType variant.
C6_CollapsedLists ==
    /\ current_context.kind = "Some" => Collapsed(current_context.val.updates)
    /\ \A i \in DOMAIN operations :
          operations[i].op = "UpdateOne" => Collapsed(operations[i].updates)

\* C6 witness: two set calls on one context left a single Set entry holding
\* both fields.
C6_Witness ==
    /\ current_context.kind = "Some"
    /\ Len(own[AsMap(current_context.val.filter)]) = 2
    /\ Len(current_context.val.updates) = 1
    /\ current_context.val.updates[1].variant = "Set"
    /\ contains_key(current_context.val.updates[1].doc, "x")
    /\ contains_key(current_context.val.updates[1].doc, "y")

\* the payload document of the open context's modifier of the given variant
ContextDoc(variant) ==
    LET updates == current_context.val.updates
    IN  updates[CHOOSE i \in DOMAIN updates : updates[i].variant = variant].doc

\* C13 as stated: add_to_set_each with bare array ["a"] and then with bare
\* array ["b", "a"], on the same open context and field, leaves the field's
\* payload as the each-form list ["a", "b"].
C13_Original ==
    \A f \in AllFilters :
        (/\ current_context.kind = "Some"
         /\ current_context.val.filter = f
         /\ own[AsMap(f)] =
                << UpdateType("AddToSetEach", Doc1("tags", Arr1("a"))),
                   UpdateType("AddToSetEach", Doc1("tags", Arr2("b", "a"))) >>)
            => ContextDoc("AddToSetEach") =
                  Doc1("tags", BsonDocument(EachDoc(<< Str("a"), Str("b") >>)))

\* the form a push / add_to_set payload value is to be stored in: an array
\* each-wrapped, anything else as it is
StoredForm(v) == IF v.t = "Array" THEN BsonDocument(EachDoc(v.v)) ELSE v

\* C14 as stated: after every push (add_to_set) call on an open context,
\* the first one included, each field of the call's payload is held by the
\* context's Push (AddToSet) modifier each-wrapped if it is an array and
\* as it is otherwise.
C14_Original ==
    (current_context.kind = "Some" /\ last_call \in {"push", "add_to_set"}) =>
        LET log == own[AsMap(current_context.val.filter)]
            call == log[Len(log)]
        IN  \A k \in Keys(call.doc) :
                get(ContextDoc(call.variant), k) = StoredForm(get(call.doc, k))

-----------------------------------------------------------------------------
(* UpdateType::merge applied to a pair of modifiers                        *)

I32Values == {I32Min, -1, 0, 1, 2, I32Max}

MergeDocs ==
    {EmptyDoc}
    \cup {Doc1("n", Int32(x)) : x \in I32Values}
    \cup {Doc1("n", Int64(3)), Doc1("n", Double(2)), Doc1("n", Str("s"))}
    \cup {Doc1("tags", Arr1("a")), Doc1("tags", Arr2("b", "a")),
          Doc1("tags", Str("a")),
          Doc1("tags", BsonDocument(<< Entry("$each", Arr1("x")),
                                       Entry("$position", Int32(0)) >>))}
    \cup {Doc1("x", Int32(1)), Doc1("y", Int32(5)),
          Doc2("x", Int32(1), "y", Int32(2)),
          Doc2("y", Int32(5), "x", Int32(3))}
    \cup {Doc1("tags", BsonDocument(EachDoc(<< Str("x") >>))),
          Doc1("tags", Arr2("y", "z"))}
    \cup {Doc2("m", Str("s"), "n", Int32(I32Max)),
          Doc2("m", Int32(2), "n", Int32(2))}
    \cup {Doc1("tags", BsonDocument(<< Entry("$each", Arr1("a")),
                                       Entry("$position", Int32(1)),
                                       Entry("$slice", Int32(5)) >>))}
    \cup {Doc1("n", Int64(1))}

MergeInputs == {UpdateType(variant, doc) : variant \in Variants, doc \in MergeDocs}

InitMerge ==
    /\ InitBuilder
    /\ InitMonitors
    /\ InitNoScript
    /\ InitNoEqual
    /\ overflow_checks \in BOOLEAN
    /\ m_self \in MergeInputs
    /\ m_other \in MergeInputs
    /\ m_result = Pending

ApplyMerge ==
    /\ m_result = Pending
    /\ m_result' = merge(m_self, m_other)
    /\ UNCHANGED <<builder_vars, overflow_checks, calls, last_call, ghost_vars,
                   script_vars, m_self, m_other, equal_vars, upsert_arg>>

NextMerge == ApplyMerge

SpecMerge == InitMerge /\ [][NextMerge]_vars

Merged == m_result # Pending

\* C8 as stated: merge returns None for different variants and a modifier of
\* the same variant for equal variants, for all payloads.
C8_Original ==
    Merged =>
        IF m_self.variant # m_other.variant
        THEN m_result = None
        ELSE /\ m_result.kind = "Some"
             /\ m_result.val.variant = m_self.variant

\* C9: merging two Set modifiers yields a Set over the union of the fields;
\* a field of one payload only keeps its value, a shared field takes the
\* later payload's value.
C9_SetMerge ==
    (Merged /\ m_self.variant = "Set" /\ m_other.variant = "Set") =>
        /\ m_result.kind = "Some"
        /\ m_result.val.variant = "Set"
        /\ LET out == m_result.val.doc IN
           /\ Keys(out) = Keys(m_self.doc) \cup Keys(m_other.doc)
           /\ Len(out) = Cardinality(Keys(out))
           /\ \A k \in Keys(out) :
                 get(out, k) = IF contains_key(m_other.doc, k)
                               THEN get(m_other.doc, k)
                               ELSE get(m_self.doc, k)

\* C9 witness: {x:1, y:2} merged with {y:5} gave {x:1, y:5}.
C9_Witness ==
    /\ Merged
    /\ m_self = UpdateType("Set", Doc2("x", Int32(1), "y", Int32(2)))
    /\ m_other = UpdateType("Set", Doc1("y", Int32(5)))
    /\ m_result = Some(UpdateType("Set", Doc2("x", Int32(1), "y", Int32(5))))

\* r is the arithmetic sum of x and y as a value of the 32-bit type
IsI32Sum(r, x, y) == AddFits(x, y) /\ r = x + y

\* C10 as stated: two Inc modifiers sharing a field whose deltas are both
\* Int32 (or both Int64) merge to the arithmetic sum in that type, for every
\* pair of values.
C10_Original ==
    (Merged /\ m_self.variant = "Inc" /\ m_other.variant = "Inc") =>
        \A k \in Keys(m_self.doc) \cap Keys(m_other.doc) :
            LET x == get(m_self.doc, k)
                y == get(m_other.doc, k)
            IN  (x.t = y.t /\ x.t \in {"Int32", "Int64"}) =>
                    /\ m_result.kind = "Some"
                    /\ get(m_result.val.doc, k).t = x.t
                    /\ IF x.t = "Int32"
                       THEN IsI32Sum(get(m_result.val.doc, k).v, x.v, y.v)
                       ELSE get(m_result.val.doc, k).v = x.v + y.v

\* r is the arithmetic product of x and y as a value of the 32-bit type
IsI32Product(r, x, y) == MulFits(x, y) /\ r = x * y

\* C31 as stated: two Mul modifiers sharing a field whose factors are both
\* Int32 (or both Int64) merge to the arithmetic product in that type, for
\* every pair of values.
C31_Original ==
    (Merged /\ m_self.variant = "Mul" /\ m_other.variant = "Mul") =>
        \A k \in Keys(m_self.doc) \cap Keys(m_other.doc) :
            LET x == get(m_self.doc, k)
                y == get(m_other.doc, k)
            IN  (x.t = y.t /\ x.t \in {"Int32", "Int64"}) =>
                    /\ m_result.kind = "Some"
                    /\ get(m_result.val.doc, k).t = x.t
                    /\ IF x.t = "Int32"
                       THEN IsI32Product(get(m_result.val.doc, k).v, x.v, y.v)
                       ELSE get(m_result.val.doc, k).v = x.v * y.v

\* C31, where the product fits the 32-bit type: the merged field holds it.
C31_ProductWhenItFits ==
    (Merged /\ m_self.variant = "Mul" /\ m_other.variant = "Mul"
            /\ m_result.kind = "Some") =>
        \A k \in Keys(m_self.doc) \cap Keys(m_other.doc) :
            LET x == get(m_self.doc, k)
                y == get(m_other.doc, k)
            IN  (x.t = y.t /\ x.t \in {"Int32", "Int64"}
                    /\ (x.t = "Int32" => MulFits(x.v, y.v))) =>
                    get(m_result.val.doc, k) = [t |-> x.t, v |-> x.v * y.v]

\* C32: merging two Pop modifiers, or two CurrentDate modifiers, gives a
\* modifier of that variant whose payload is the later payload: no field of
\* the earlier payload alone is in it.
C32_LaterPayloadReplaces ==
    (Merged /\ m_self.variant = m_other.variant
            /\ m_self.variant \in {"Pop", "CurrentDate"}) =>
        /\ m_result = Some(UpdateType(m_self.variant, m_other.doc))
        /\ \A k \in Keys(m_self.doc) \ Keys(m_other.doc) :
              ~contains_key(m_result.val.doc, k)

\* C32 witness: Pop {x: 1} merged with Pop {y: 5} gave Pop {y: 5}.
C32_Witness ==
    /\ Merged
    /\ m_self = UpdateType("Pop", Doc1("x", Int32(1)))
    /\ m_other = UpdateType("Pop", Doc1("y", Int32(5)))
    /\ m_result = Some(UpdateType("Pop", Doc1("y", Int32(5))))

\* C33: merging two PullAll modifiers gives a PullAll modifier with the
\* fields of both: a shared field whose two values are arrays holds the
\* earlier array followed by the later one, duplicates kept; a shared field
\* with a value that is not an array holds the later value; a field of one
\* side only holds that side's value.
C33_PullAllMerge ==
    (Merged /\ m_self.variant = "PullAll" /\ m_other.variant = "PullAll") =>
        /\ m_result.kind = "Some"
        /\ m_result.val.variant = "PullAll"
        /\ Keys(m_result.val.doc) = Keys(m_self.doc) \cup Keys(m_other.doc)
        /\ \A k \in Keys(m_self.doc) \cap Keys(m_other.doc) :
              LET earlier == get(m_self.doc, k)
                  later   == get(m_other.doc, k)
                  field   == get(m_result.val.doc, k)
              IN  IF earlier.t = "Array" /\ later.t = "Array"
                  THEN /\ field = BsonArray(earlier.v \o later.v)
                       /\ Len(field.v) = Len(earlier.v) + Len(later.v)
                  ELSE field = later
        /\ \A k \in Keys(m_self.doc) \ Keys(m_other.doc) :
              get(m_result.val.doc, k) = get(m_self.doc, k)
        /\ \A k \in Keys(m_other.doc) \ Keys(m_self.doc) :
              get(m_result.val.doc, k) = get(m_other.doc, k)

\* C33 witness: PullAll {tags: ["a"]} merged with PullAll {tags: ["b", "a"]}
\* gave PullAll {tags: ["a", "b", "a"]}.
C33_Witness ==
    /\ Merged
    /\ m_self = UpdateType("PullAll", Doc1("tags", Arr1("a")))
    /\ m_other = UpdateType("PullAll", Doc1("tags", Arr2("b", "a")))
    /\ m_result = Some(UpdateType("PullAll",
            Doc1("tags", BsonArray(<< Str("a"), Str("b"), Str("a") >>))))

\* C34: merging two Unset, SetOnInsert, Rename, Bit or Pull modifiers gives
\* a modifier of the variant over the union of the keys: a shared field
\* holds the later value as it is (for Pull too: the two conditions are not
\* combined), a field of one side only holds that side's value.
C34_LastWriterWins ==
    (Merged /\ m_self.variant = m_other.variant
            /\ m_self.variant \in
                    {"Unset", "SetOnInsert", "Rename", "Bit", "Pull"}) =>
        /\ m_result.kind = "Some"
        /\ m_result.val.variant = m_self.variant
        /\ Keys(m_result.val.doc) = Keys(m_self.doc) \cup Keys(m_other.doc)
        /\ \A k \in Keys(m_other.doc) :
              get(m_result.val.doc, k) = get(m_other.doc, k)
        /\ \A k \in Keys(m_self.doc) \ Keys(m_other.doc) :
              get(m_result.val.doc, k) = get(m_self.doc, k)

\* C34 witness: Pull {x: 1, y: 2} merged with Pull {y: 5, x: 3} gave
\* Pull {x: 3, y: 5}.
C34_Witness ==
    /\ Merged
    /\ m_self = UpdateType("Pull", Doc2("x", Int32(1), "y", Int32(2)))
    /\ m_other = UpdateType("Pull", Doc2("y", Int32(5), "x", Int32(3)))
    /\ m_result = Some(UpdateType("Pull", Doc2("x", Int32(3), "y", Int32(5))))

\* the two values are not both Double, both Int32 or both Int64
Mismatched(x, y) == ~(x.t = y.t /\ x.t \in {"Double", "Int32", "Int64"})

\* C11 as stated: merging two Inc (or two Mul) modifiers with a shared field
\* whose two values are not of the same numeric type never fails: merge
\* returns a modifier of that variant and the field holds the later value.
C11_Original ==
    (Merged /\ m_self.variant = m_other.variant
            /\ m_self.variant \in {"Inc", "Mul"}) =>
        \A k \in Keys(m_self.doc) \cap Keys(m_other.doc) :
            Mismatched(get(m_self.doc, k), get(m_other.doc, k)) =>
                /\ m_result.kind = "Some"
                /\ m_result.val.variant = m_self.variant
                /\ get(m_result.val.doc, k) = get(m_other.doc, k)

\* The same for every merge that returned: a mismatched shared field of the
\* result holds the later value (the merges left out are the ones that
\* panicked on another field of the payload).
C11_FallbackWhenReturned ==
    (Merged /\ m_self.variant = m_other.variant
            /\ m_self.variant \in {"Inc", "Mul"}
            /\ m_result.kind # "Panic") =>
        \A k \in Keys(m_self.doc) \cap Keys(m_other.doc) :
            Mismatched(get(m_self.doc, k), get(m_other.doc, k)) =>
                /\ m_result.kind = "Some"
                /\ m_result.val.variant = m_self.variant
                /\ get(m_result.val.doc, k) = get(m_other.doc, k)

\* a payload value of the each-shaped form: a document whose "$each" is a list
EachShaped(v) ==
    /\ v.t = "Document"
    /\ \E i \in DOMAIN v.v : v.v[i].k = "$each" /\ v.v[i].v.t = "Array"

\* the list under "$each" of an each-shaped value
EachList(v) == v.v[CHOOSE i \in DOMAIN v.v : v.v[i].k = "$each"].v.v

\* the elements a payload value stands for: the list of an each-shaped
\* value, the elements of a bare array, the value itself otherwise
Elements(v) ==
    IF EachShaped(v) THEN EachList(v)
    ELSE IF v.t = "Array" THEN v.v
    ELSE << v >>

\* C12: merging a PushEach payload into one whose value for a shared field
\* is already each-shaped leaves that field each-shaped, its list being the
\* earlier list followed by the incoming elements in order, whatever the
\* incoming shape.
C12_PushEachAppends ==
    (Merged /\ m_self.variant = "PushEach" /\ m_other.variant = "PushEach") =>
        /\ m_result.kind = "Some"
        /\ m_result.val.variant = "PushEach"
        /\ \A k \in Keys(m_self.doc) \cap Keys(m_other.doc) :
              EachShaped(get(m_self.doc, k)) =>
                  /\ EachShaped(get(m_result.val.doc, k))
                  /\ EachList(get(m_result.val.doc, k)) =
                        EachList(get(m_self.doc, k))
                            \o Elements(get(m_other.doc, k))

\* C12 witness: {tags: {$each: ["x"]}} merged with {tags: ["y", "z"]} gave
\* {tags: {$each: ["x", "y", "z"]}}.
C12_Witness ==
    /\ Merged
    /\ m_self = UpdateType("PushEach",
                           Doc1("tags", BsonDocument(EachDoc(<< Str("x") >>))))
    /\ m_other = UpdateType("PushEach", Doc1("tags", Arr2("y", "z")))
    /\ m_result = Some(UpdateType("PushEach",
            Doc1("tags", BsonDocument(
                    EachDoc(<< Str("x"), Str("y"), Str("z") >>)))))

\* no value is in the list twice
NoDuplicates(list) ==
    \A i, j \in DOMAIN list : i # j => ~BsonEq(list[i], list[j])

\* C39 as stated: whatever add_to_set_each calls were made on the open
\* context, the list its AddToSetEach modifier holds for a field has no
\* value twice, a call whose own payload repeats a value included.
C39_Original ==
    (/\ current_context.kind = "Some"
     /\ \E i \in DOMAIN current_context.val.updates :
           current_context.val.updates[i].variant = "AddToSetEach") =>
        LET doc == ContextDoc("AddToSetEach")
        IN  \A e \in DOMAIN doc : NoDuplicates(Elements(doc[e].v))

\* C39, for calls none of which repeats a value in its own payload.
C39_WhenNoCallRepeats ==
    (/\ current_context.kind = "Some"
     /\ \E i \in DOMAIN current_context.val.updates :
           current_context.val.updates[i].variant = "AddToSetEach"
     /\ \A i \in DOMAIN own[AsMap(current_context.val.filter)] :
           LET u == own[AsMap(current_context.val.filter)][i]
           IN  u.variant = "AddToSetEach" =>
                  \A e \in DOMAIN u.doc : NoDuplicates(Elements(u.doc[e].v))) =>
        LET doc == ContextDoc("AddToSetEach")
        IN  \A e \in DOMAIN doc : NoDuplicates(Elements(doc[e].v))

\* the sequence list begins with the sequence first
StartsWith(list, first) ==
    /\ Len(first) <= Len(list)
    /\ SubSeq(list, 1, Len(first)) = first

\* C28 as stated: in a PushEach or AddToSetEach merge every shared field
\* ends each-shaped, its list being the earlier side's elements followed by
\* the later side's (for AddToSetEach: by those of the later side not yet
\* there), whatever the shape of the earlier side, so that no earlier
\* element is lost.
C28_Original ==
    (Merged /\ m_self.variant = m_other.variant
            /\ m_self.variant \in {"PushEach", "AddToSetEach"}) =>
        /\ m_result.kind = "Some"
        /\ \A k \in Keys(m_self.doc) \cap Keys(m_other.doc) :
              LET earlier == Elements(get(m_self.doc, k))
                  later   == Elements(get(m_other.doc, k))
                  field   == get(m_result.val.doc, k)
              IN  /\ EachShaped(field)
                  /\ StartsWith(EachList(field), earlier)
                  /\ \A i \in DOMAIN later :
                        ArrContains(EachList(field), later[i])
                  /\ m_self.variant = "PushEach" =>
                        EachList(field) = earlier \o later

\* the modifier keys of a payload value: the keys other than "$each" of a
\* document that has "$each"
ModifierKeys(v) ==
    IF v.t = "Document" /\ contains_key(v.v, "$each")
    THEN Keys(v.v) \ {"$each"}
    ELSE {}

\* the merged value field of a shared field keeps the modifier keys of the
\* values earlier and later, the later value winning, and its "$each" is
\* the combined list
KeepsModifiers(earlier, later, field) ==
    /\ field.t = "Document"
    /\ \A mk \in ModifierKeys(later) :
          contains_key(field.v, mk) /\ get(field.v, mk) = get(later.v, mk)
    /\ \A mk \in ModifierKeys(earlier) \ ModifierKeys(later) :
          contains_key(field.v, mk) /\ get(field.v, mk) = get(earlier.v, mk)
    /\ EachShaped(field)
    /\ StartsWith(EachList(field), Elements(earlier))
    /\ \A i \in DOMAIN Elements(later) :
          ArrContains(EachList(field), Elements(later)[i])

EachMerged ==
    /\ Merged
    /\ m_self.variant = m_other.variant
    /\ m_self.variant \in {"PushEach", "AddToSetEach"}

\* C29 as stated: in a PushEach or AddToSetEach merge every shared field
\* holds every modifier key of either side, the later side's value for a key
\* of both, and under "$each" the combined list, never one side's alone.
C29_Original ==
    EachMerged =>
        /\ m_result.kind = "Some"
        /\ \A k \in Keys(m_self.doc) \cap Keys(m_other.doc) :
              KeepsModifiers(get(m_self.doc, k), get(m_other.doc, k),
                             get(m_result.val.doc, k))

\* C29, where the earlier value of the shared field is a document: the
\* modifier keys of both sides are kept, the later side winning, and "$each"
\* holds the combined list.
C29_WhenEarlierIsDocument ==
    EachMerged =>
        /\ m_result.kind = "Some"
        /\ \A k \in Keys(m_self.doc) \cap Keys(m_other.doc) :
              get(m_self.doc, k).t = "Document" =>
                  KeepsModifiers(get(m_self.doc, k), get(m_other.doc, k),
                                 get(m_result.val.doc, k))

\* the smaller (Min) or larger (Max) of two values of one integer type
Extreme(variant, x, y) ==
    IF variant = "Min"
    THEN (IF y.v < x.v THEN y ELSE x)
    ELSE (IF y.v > x.v THEN y ELSE x)

SameIntegerType(x, y) == x.t = y.t /\ x.t \in {"Int32", "Int64"}

DifferentOrNonNumeric(x, y) ==
    \/ x.t # y.t
    \/ x.t \notin {"Int32", "Int64", "Double"}

\* C30: merging two Min (two Max) modifiers gives a modifier of the variant
\* with the fields of both sides.  A shared field whose two values have the
\* same integer type holds the smaller (larger) of the two, the same value
\* as with the sides exchanged, and merging a modifier with itself leaves
\* the field as it is; a shared field whose values are of different or
\* non-numeric types keeps the earlier value; a field of one side only has
\* that side's value.
C30_MinMaxMerge ==
    (Merged /\ m_self.variant = m_other.variant
            /\ m_self.variant \in {"Min", "Max"}) =>
        /\ m_result.kind = "Some"
        /\ m_result.val.variant = m_self.variant
        /\ Keys(m_result.val.doc) = Keys(m_self.doc) \cup Keys(m_other.doc)
        /\ \A k \in Keys(m_self.doc) \cap Keys(m_other.doc) :
              LET earlier == get(m_self.doc, k)
                  later   == get(m_other.doc, k)
                  field   == get(m_result.val.doc, k)
              IN  /\ SameIntegerType(earlier, later) =>
                        /\ field = Extreme(m_self.variant, earlier, later)
                        /\ field = get(merge(m_other, m_self).val.doc, k)
                        /\ get(merge(m_self, m_self).val.doc, k) = earlier
                  /\ DifferentOrNonNumeric(earlier, later) => field = earlier
        /\ \A k \in Keys(m_self.doc) \ Keys(m_other.doc) :
              get(m_result.val.doc, k) = get(m_self.doc, k)
        /\ \A k \in Keys(m_other.doc) \ Keys(m_self.doc) :
              get(m_result.val.doc, k) = get(m_other.doc, k)

\* C30 witness: Min {y: 5, x: 3} merged with Min {x: 1, y: 2} gave
\* Min {y: 2, x: 1}.
C30_Witness ==
    /\ Merged
    /\ m_self = UpdateType("Min", Doc2("y", Int32(5), "x", Int32(3)))
    /\ m_other = UpdateType("Min", Doc2("x", Int32(1), "y", Int32(2)))
    /\ m_result = Some(UpdateType("Min", Doc2("y", Int32(2), "x", Int32(1))))

-----------------------------------------------------------------------------
(* BatchUpdateBuilder::documents_equal applied to a pair of documents      *)

\* the documents compared, listed as a sequence
EqualDocs ==
    << EmptyDoc, FilterA1, FilterA2, FilterA1B2, FilterB2A1,
       Doc2("a", Int32(1), "c", Int32(2)),
       Doc1("a", Int64(1)), Doc1("a", Double(1)), Doc1("a", DoubleNaN),
       Doc1("a", Arr2("p", "q")), Doc1("a", Arr2("q", "p")),
       Doc1("a", BsonDocument(FilterA1B2)), Doc1("a", BsonDocument(FilterB2A1)) >>

InitEqual ==
    /\ InitBuilder
    /\ InitMonitors
    /\ InitNoScript
    /\ InitNoMerge
    /\ overflow_checks \in BOOLEAN
    /\ \E i \in DOMAIN EqualDocs : eq_doc1 = EqualDocs[i]
    /\ \E i \in DOMAIN EqualDocs : eq_doc2 = EqualDocs[i]
    /\ eq_result = Pending

ApplyEqual ==
    /\ eq_result = Pending
    /\ eq_result' = Some(documents_equal(eq_doc1, eq_doc2))
    /\ UNCHANGED <<builder_vars, overflow_checks, calls, last_call, ghost_vars,
                   script_vars, merge_vars, eq_doc1, eq_doc2, upsert_arg>>

NextEqual == ApplyEqual

SpecEqual == InitEqual /\ [][NextEqual]_vars

Compared == eq_result # Pending

\* C26 as stated: documents_equal(d1, d2) holds iff d1 and d2 have the same
\* number of fields and every key of d1 is in d2 with an equal value, and
\* it is reflexive and symmetric.
C26_Original ==
    Compared =>
        /\ eq_result.val =
              (/\ Len(eq_doc1) = Len(eq_doc2)
               /\ \A i \in DOMAIN eq_doc1 :
                     \E j \in DOMAIN eq_doc2 :
                         /\ eq_doc2[j].k = eq_doc1[i].k
                         /\ BsonEq(eq_doc1[i].v, eq_doc2[j].v))
        /\ eq_result.val = documents_equal(eq_doc2, eq_doc1)
        /\ documents_equal(eq_doc1, eq_doc1)

-----------------------------------------------------------------------------
(* Properties of the builder specification                                 *)

Compiled == last_call = "execute" /\ ~panicked

\* the update-one models of the compiled list whose filter is the map c
UpdateModelsFor(c) ==
    {i \in DOMAIN write_models :
        /\ write_models[i].model = "UpdateOne"
        /\ AsMap(write_models[i].filter) = c}

\* the committed UpdateOne entries whose filter is the map c
UpdateEntriesFor(c) ==
    {i \in DOMAIN operations :
        /\ operations[i].op = "UpdateOne"
        /\ AsMap(operations[i].filter) = c}

\* the updates list a context holds after the logged calls, made in order
RECURSIVE Replay(_)
Replay(log) ==
    IF Len(log) = 0 THEN << >>
    ELSE add_update_type(Replay(SubSeq(log, 1, Len(log) - 1)), log[Len(log)]).val

\* C1: the list handed over by execute() holds no update-one, delete-one or
\* delete-many whose filter is the empty document, whatever the upsert flag.
C1_DestructiveGuard ==
    \A i \in DOMAIN write_models :
        write_models[i].model \in {"UpdateOne", "DeleteOne", "DeleteMany"}
            => ~is_empty(write_models[i].filter)

\* C1 witness: execute() has run on a sequence holding an empty-filter update
\* with upsert set and an empty-filter delete.
C1_Witness ==
    /\ Compiled
    /\ \E i \in DOMAIN operations :
          /\ operations[i].op = "UpdateOne"
          /\ is_empty(operations[i].filter)
          /\ operations[i].upsert
    /\ \E i \in DOMAIN operations :
          /\ operations[i].op \in {"DeleteOne", "DeleteMany"}
          /\ is_empty(operations[i].filter)
    /\ C1_DestructiveGuard

\* two add_update sessions, each with a modifier call, on structurally equal
\* filters f1 and f2
TwoSessions(f1, f2) ==
    /\ AsMap(f1) = AsMap(f2)
    /\ IF f1 = f2 THEN sessions[f1] >= 2
       ELSE sessions[f1] >= 1 /\ sessions[f2] >= 1

OwnEntry(f) ==
    /\ Cardinality(UpdateModelsFor(AsMap(f))) = 1
    /\ \A i \in UpdateModelsFor(AsMap(f)) :
          write_models[i].update = update_doc(Replay(own[AsMap(f)]))

\* C3 as stated: for all structurally different filters f1, f2 (the empty
\* filter included) with modifier calls, the compiled list has an update-one
\* for each, holding exactly its own modifiers.
C3_Original ==
    Compiled =>
        \A f1, f2 \in Filters :
            (AsMap(f1) # AsMap(f2) /\ sessions[f1] >= 1 /\ sessions[f2] >= 1)
                => OwnEntry(f1) /\ OwnEntry(f2)

\* C3 amended: the same for structurally different non-empty filters.
C3_SeparateUpdates ==
    Compiled =>
        \A f1, f2 \in Filters :
            (/\ ~is_empty(f1) /\ ~is_empty(f2)
             /\ AsMap(f1) # AsMap(f2) /\ sessions[f1] >= 1 /\ sessions[f2] >= 1)
                => OwnEntry(f1) /\ OwnEntry(f2)

\* C3 witness: {a:1} and {a:2} each received a different modifier and the
\* compiled list holds two update-ones with different update documents.
C3_Witness ==
    /\ Compiled
    /\ sessions[FilterA1] >= 1 /\ sessions[FilterA2] >= 1
    /\ own[AsMap(FilterA1)] # own[AsMap(FilterA2)]
    /\ OwnEntry(FilterA1) /\ OwnEntry(FilterA2)
    /\ Len(write_models) = 2

\* C5 as stated (and as the tests assert): an update whose context has
\* received a modifier is counted in operations without build().
C5_Original ==
    (current_context.kind = "Some" /\ Len(current_context.val.updates) > 0)
        => UpdateEntriesFor(AsMap(current_context.val.filter)) # {}

IsCall(name) == calls' = calls + 1 /\ last_call' = name

\* C15: build() with an open context whose modifier list is non-empty
\* appends exactly one UpdateOne with that context's filter, modifier list
\* and upsert flag to the end of operations and closes the context; with an
\* open context whose modifier list is empty it closes the context and
\* leaves operations unchanged.
C15_BuildCommits ==
    [][IsCall("build") =>
          /\ current_context' = None
          /\ current_context.kind = "Some" =>
                IF Len(current_context.val.updates) > 0
                THEN /\ Len(operations') = Len(operations) + 1
                     /\ SubSeq(operations', 1, Len(operations)) = operations
                     /\ operations'[Len(operations')] =
                           [op |-> "UpdateOne",
                            filter |-> current_context.val.filter,
                            updates |-> current_context.val.updates,
                            upsert |-> current_context.val.is_upsert]
                ELSE operations' = operations]_vars

\* C15 witness: build() has just committed a context with a modifier and the
\* upsert flag set, behind an earlier intent.
C15_Witness ==
    /\ last_call = "build"
    /\ current_context = None
    /\ Len(operations) = 2
    /\ operations[2].op = "UpdateOne"
    /\ operations[2].upsert
    /\ Len(operations[2].updates) = 1

\* C16: build() is idempotent: in the state a build() call leaves, one more
\* build() changes neither operations nor the context.
C16_BuildIdempotent ==
    last_call = "build" =>
        /\ commit_context(operations, current_context) = operations
        /\ current_context = None

\* C16 witness: build() has committed a context holding two modifiers, the
\* case in which a second commit of the same context would show.
C16_Witness ==
    /\ last_call = "build"
    /\ Len(operations) = 1
    /\ operations[1].op = "UpdateOne"
    /\ Len(operations[1].updates) = 2
    /\ C16_BuildIdempotent

\* the intent a terminal method appends
TerminalOp(name) ==
    CASE name = "delete" -> "DeleteOne"
      [] name = "delete_many" -> "DeleteMany"
      [] name = "insert" -> "InsertOne"

\* C17: delete, delete_many and insert commit the open context and then
\* append their intent unconditionally: afterwards no context is open, the
\* last entry of operations is the terminal intent, the flushed update (if
\* the context held a modifier) is the entry right before it, and nothing
\* else in operations has changed, an identical earlier intent included.
C17_TerminalsCommitAndAppend ==
    [][\A name \in {"delete", "delete_many", "insert"} :
          IsCall(name) =>
            LET flushed == /\ current_context.kind = "Some"
                           /\ Len(current_context.val.updates) > 0
                n == Len(operations)
            IN  /\ current_context' = None
                /\ Len(operations') = IF flushed THEN n + 2 ELSE n + 1
                /\ SubSeq(operations', 1, n) = operations
                /\ operations'[Len(operations')].op = TerminalOp(name)
                /\ flushed =>
                      operations'[n + 1] =
                          [op |-> "UpdateOne",
                           filter |-> current_context.val.filter,
                           updates |-> current_context.val.updates,
                           upsert |-> current_context.val.is_upsert]]_vars

\* C17 witness: delete({a:1}) was called twice, the second time with an open
\* context holding a modifier: operations is delete, update, delete with the
\* two deletes identical.
C17_Witness ==
    /\ last_call = "delete"
    /\ current_context = None
    /\ Len(operations) = 3
    /\ operations[1] = DeleteOne(FilterA1)
    /\ operations[2].op = "UpdateOne"
    /\ operations[3] = DeleteOne(FilterA1)

\* the names of the modifier methods and of upsert
ContextMethods ==
    {"set", "unset", "set_on_insert", "push", "push_each", "pull", "pull_all",
     "pop", "add_to_set", "add_to_set_each", "inc", "mul", "min", "max",
     "rename", "current_date", "bit", "upsert"}

\* C18: with no context open, every modifier method and upsert is a no-op:
\* operations, the absent context and the rest of the builder are unchanged,
\* and every update of a compiled list is built from exactly the modifier
\* calls made while a context on its filter was open.
C18_NoContextNoOp ==
    /\ [][(current_context = None /\ \E name \in ContextMethods : IsCall(name))
              => UNCHANGED builder_vars]_vars
    /\ [](Compiled =>
            \A i \in DOMAIN write_models :
                write_models[i].model = "UpdateOne" =>
                    write_models[i].update =
                        update_doc(Replay(own[AsMap(write_models[i].filter)])))

\* C18 witness: a modifier method or upsert has just been called with no
\* context open, after an update was committed.
C18_Witness ==
    /\ last_call \in ContextMethods
    /\ current_context = None
    /\ Len(operations) = 1
    /\ operations[1].op = "UpdateOne"
    /\ own[AsMap(operations[1].filter)] = operations[1].updates

\* the names of the modifier methods
ModifierMethods == ContextMethods \ {"upsert"}

\* the variants of a list of modifiers in the order of their first occurrence
RECURSIVE FirstSeen(_)
FirstSeen(log) ==
    IF Len(log) = 0 THEN << >>
    ELSE LET front == FirstSeen(SubSeq(log, 1, Len(log) - 1))
             variant == log[Len(log)].variant
         IN  IF \E i \in DOMAIN front : front[i] = variant
             THEN front ELSE Append(front, variant)

VariantsOf(updates) == [i \in DOMAIN updates |-> updates[i].variant]

\* C35: a modifier call on an open context changes at most one entry of the
\* modifier list and moves none: when the list has an entry of the call's
\* variant that entry alone changes, in place, and otherwise the call's
\* modifier is appended at the end; so in every state the variants of the
\* open context's list are in the order in which each was first added.
C35_InPlaceOrAppended ==
    /\ [][((\E name \in ModifierMethods : IsCall(name))
              /\ current_context.kind = "Some" /\ ~panicked') =>
            LET old == current_context.val.updates
                new == current_context'.val.updates
                log == own'[AsMap(current_context.val.filter)]
                u   == log[Len(log)]
            IN  IF \E i \in DOMAIN old : old[i].variant = u.variant
                THEN /\ Len(new) = Len(old)
                     /\ \E i \in DOMAIN old :
                           /\ old[i].variant = u.variant
                           /\ new[i].variant = u.variant
                           /\ \A j \in DOMAIN old \ {i} : new[j] = old[j]
                ELSE new = Append(old, u)]_vars
    /\ [](current_context.kind = "Some" =>
            VariantsOf(current_context.val.updates) =
                FirstSeen(own[AsMap(current_context.val.filter)]))

\* C35 witness: set, inc and set again on one context: the list is
\* [Set with both fields, Inc].
C35_Witness ==
    /\ last_call = "set"
    /\ current_context.kind = "Some"
    /\ Len(current_context.val.updates) = 2
    /\ current_context.val.updates[1].variant = "Set"
    /\ Len(current_context.val.updates[1].doc) = 2
    /\ current_context.val.updates[2].variant = "Inc"

\* an intent that has a primitive operation: not an update or delete on the
\* empty filter, and not an update without modifiers
Emitted(operation) ==
    /\ operation.op \in {"UpdateOne", "DeleteOne", "DeleteMany"}
            => operation.filter # EmptyDoc
    /\ operation.op = "UpdateOne" => operation.updates # << >>

\* the primitive operation w is the one of the intent operation
PrimitiveOf(operation, w) ==
    /\ w.model = operation.op
    /\ operation.op \in {"UpdateOne", "DeleteOne", "DeleteMany"}
            => w.filter = operation.filter
    /\ operation.op = "UpdateOne" =>
            /\ w.upsert = operation.upsert
            /\ w.update = update_doc(operation.updates)
    /\ operation.op = "InsertOne" =>
            w.document = << [k |-> "_id", v |-> Int32(operation.document.id)] >>

\* C19: the compiled list is the committed sequence without the intents
\* that have no primitive operation, in the same order: the dropped intents
\* are exactly the updates and deletes on the empty filter (and updates
\* without modifiers), and every InsertOne is there.
C19_CompiledInOrder ==
    Compiled =>
        LET kept == SelectSeq(operations, Emitted)
        IN  /\ Len(write_models) = Len(kept)
            /\ \A i \in DOMAIN kept : PrimitiveOf(kept[i], write_models[i])

\* C19 witness: insert, delete on the empty filter and an update on {a:1}
\* compiled to the insert followed by the update.
C19_Witness ==
    /\ Compiled
    /\ Len(operations) = 3
    /\ operations[1].op = "InsertOne"
    /\ operations[2] = DeleteOne(EmptyDoc)
    /\ operations[3].op = "UpdateOne"
    /\ Len(write_models) = 2
    /\ write_models[1].model = "InsertOne"
    /\ write_models[2].model = "UpdateOne"

\* the open context holds a modifier, so that committing it adds an entry
Flushes == current_context.kind = "Some" /\ Len(current_context.val.updates) > 0

\* operations once the open context is committed
Committed ==
    IF Flushes
    THEN operations \o << [op |-> "UpdateOne",
                           filter |-> current_context.val.filter,
                           updates |-> current_context.val.updates,
                           upsert |-> current_context.val.is_upsert] >>
    ELSE operations

\* C20: add_update(f) on a filter that has a committed UpdateOne (the entry
\* of the context it has just committed included) takes that entry out of
\* operations, the other intents keeping their order, and opens the context
\* with the entry's modifier list and upsert flag; operations then stays as
\* it is while the context is open, and the call that commits the context
\* puts its entry behind every intent of operations.
C20_ReopenMovesEntry ==
    [][/\ IsCall("add_update") =>
            LET context == current_context'.val
                hits == {i \in DOMAIN Committed :
                            /\ Committed[i].op = "UpdateOne"
                            /\ AsMap(Committed[i].filter) = AsMap(context.filter)}
            IN  /\ current_context'.kind = "Some"
                /\ IF hits = {}
                   THEN /\ operations' = Committed
                        /\ context.updates = << >>
                        /\ context.is_upsert = FALSE
                   ELSE \E i \in hits :
                        /\ operations' = SubSeq(Committed, 1, i - 1)
                                            \o SubSeq(Committed, i + 1, Len(Committed))
                        /\ context.updates = Committed[i].updates
                        /\ context.is_upsert = Committed[i].upsert
       /\ (\E name \in ContextMethods : IsCall(name)) => operations' = operations
       /\ (\E name \in {"build", "delete", "delete_many", "insert", "execute"} :
                IsCall(name))
            => /\ current_context' = None
               /\ SubSeq(operations', 1, Len(Committed)) = Committed]_vars

\* C20 witness: {a:2} was committed with a modifier and the upsert flag set,
\* a delete followed, and add_update({a:2}) has just re-opened the context:
\* it holds the modifier and the flag, and operations holds the delete only.
C20_Witness ==
    /\ last_call = "add_update"
    /\ current_context.kind = "Some"
    /\ current_context.val.filter = FilterA2
    /\ Len(current_context.val.updates) = 1
    /\ current_context.val.is_upsert
    /\ operations = << DeleteOne(FilterA1) >>

\* C36: add_update(f) opens the context with the upsert flag unset when no
\* committed UpdateOne has a filter equal to f, and with that entry's flag
\* otherwise; upsert(b) on an open context sets the flag to b and leaves the
\* filter, the modifier list and operations as they are; the entry a
\* committing call appends carries the context's flag, and so does the
\* update-one model execute() builds from it.
C36_UpsertFlag ==
    [][/\ IsCall("add_update") =>
            LET context == current_context'.val
                hits == {i \in DOMAIN Committed :
                            /\ Committed[i].op = "UpdateOne"
                            /\ AsMap(Committed[i].filter) = AsMap(context.filter)}
            IN  /\ current_context'.kind = "Some"
                /\ hits = {} => ~context.is_upsert
                /\ \A i \in hits : context.is_upsert = Committed[i].upsert
       /\ (IsCall("upsert") /\ current_context.kind = "Some") =>
            LET context == current_context.val
                flag == upsert_arg'[AsMap(context.filter)].val
            IN  /\ current_context' =
                      Some(BatchUpdateContext(context.filter, context.updates, flag))
                /\ operations' = operations
       /\ ((\E name \in {"build", "delete", "delete_many", "insert", "execute"} :
                IsCall(name)) /\ Flushes) =>
            /\ Len(operations') >= Len(operations) + 1
            /\ operations'[Len(operations) + 1] =
                  UpdateOne(current_context.val.filter,
                            current_context.val.updates,
                            current_context.val.is_upsert)
       /\ (IsCall("execute") /\ ~panicked') =>
            \A i \in DOMAIN write_models' :
                write_models'[i].model = "UpdateOne" =>
                    \E j \in DOMAIN operations' :
                        /\ operations'[j].op = "UpdateOne"
                        /\ operations'[j].filter = write_models'[i].filter
                        /\ operations'[j].upsert = write_models'[i].upsert]_vars

\* C36 witness: execute() has compiled an update on {a: 1} whose flag was
\* set by upsert(true) on its context.
C36_Witness ==
    /\ Compiled
    /\ upsert_arg[AsMap(FilterA1)] = Some(TRUE)
    /\ Len(operations) = 1
    /\ operations[1].op = "UpdateOne"
    /\ write_models = << UpdateOneModel(FilterA1,
                                        update_doc(operations[1].updates), TRUE) >>

\* C37 as stated: the flag of the compiled update on a filter is the
\* argument of the latest upsert call made while a context on that filter
\* was open, and unset when there was no such call.
C37_Original ==
    Compiled =>
        \A i \in DOMAIN write_models :
            write_models[i].model = "UpdateOne" =>
                LET arg == upsert_arg[AsMap(write_models[i].filter)]
                IN  write_models[i].upsert =
                        (IF arg = None THEN FALSE ELSE arg.val)

\* the intent is a DeleteOne, a DeleteMany or an InsertOne
IsTerminal(operation) == operation.op \in {"DeleteOne", "DeleteMany", "InsertOne"}

\* the terminal intents of a sequence, in its order
Terminals(ops) == SelectSeq(ops, IsTerminal)

\* C38: no call removes, changes or reorders a terminal intent: delete,
\* delete_many and insert put their intent behind the terminal intents
\* already there, and every other call leaves the terminal intents of
\* operations as they are, in content and order; so the terminal intents
\* are always in the order of the calls that made them.
C38_TerminalsStable ==
    [][/\ \A name \in {"delete", "delete_many", "insert"} :
            IsCall(name) =>
                /\ operations'[Len(operations')].op = TerminalOp(name)
                /\ Terminals(operations') =
                      Append(Terminals(operations), operations'[Len(operations')])
       /\ (\E name \in ContextMethods \cup {"add_update", "build", "execute"} :
                IsCall(name))
            => Terminals(operations') = Terminals(operations)]_vars

\* C38 witness: add_update({a: 2}) has re-opened the context of an update
\* committed before a delete and an insert: the update has left operations,
\* the delete and the insert are there in the order of their calls.
C38_Witness ==
    /\ last_call = "add_update"
    /\ current_context.kind = "Some"
    /\ current_context.val.filter = FilterA2
    /\ Len(current_context.val.updates) = 1
    /\ Len(operations) = 2
    /\ operations[1].op = "DeleteOne"
    /\ operations[2].op = "InsertOne"

\* C22 as stated: the combined modifier document of a compiled update-one
\* holds, under the operator name of every modifier of the intent's list,
\* that modifier's payload, for every combination of variants.
C22_Original ==
    Compiled =>
        \A i \in DOMAIN operations :
            (/\ operations[i].op = "UpdateOne"
             /\ Len(write_models) = Len(operations)) =>
                \A j \in DOMAIN operations[i].updates :
                    LET u == operations[i].updates[j]
                        combined == write_models[i].update
                    IN  \E e \in DOMAIN combined :
                            /\ combined[e].k = OperatorName(u.variant)
                            /\ combined[e].v = BsonDocument(u.doc)

\* C23 as stated: every entry of operations is still in operations, with
\* the same content, after every call.
C23_Original ==
    [][\A i \in DOMAIN operations :
          \E j \in DOMAIN operations' : operations'[j] = operations[i]]_vars

\* the entries an add_update step takes out of operations: the UpdateOne
\* whose filter structurally equals the filter of the context it opens
Reopened ==
    {i \in DOMAIN operations :
        /\ IsCall("add_update")
        /\ operations[i].op = "UpdateOne"
        /\ AsMap(operations[i].filter) = AsMap(current_context'.val.filter)}

\* C23 amended: every call leaves each entry of operations in operations
\* with the same content and in the same relative order, except that
\* add_update(f) takes out the one UpdateOne whose filter structurally
\* equals f, its modifier list and upsert flag going to the open context.
C23_OnlyReopenRemoves ==
    [][/\ Cardinality(Reopened) <= 1
       /\ Len(operations') >= Len(operations) - Cardinality(Reopened)
       /\ \A i \in DOMAIN operations \ Reopened :
             operations'[i - Cardinality({g \in Reopened : g < i})] = operations[i]
       /\ \A g \in Reopened :
             /\ current_context'.val.updates = operations[g].updates
             /\ current_context'.val.is_upsert = operations[g].upsert]_vars

\* C23 witness: an update on {a:1} and an insert were committed, and
\* add_update({a:1}) has taken the update out: operations holds the insert,
\* the open context the update's modifier.
C23_Witness ==
    /\ last_call = "add_update"
    /\ current_context.kind = "Some"
    /\ current_context.val.filter = FilterA1
    /\ Len(current_context.val.updates) = 1
    /\ Len(operations) = 1
    /\ operations[1].op = "InsertOne"

\* C24 as stated: the committed sequence is consumed by execute(), so that
\* an execute() following an execute() on the same builder submits none of
\* the intents again.
C24_Original ==
    [][(IsCall("execute") /\ last_call = "execute" /\ ~panicked')
          => write_models' = << >>]_vars

\* an insert record of operations does not serialize to a document
Unserializable ==
    \E i \in DOMAIN operations :
        operations[i].op = "InsertOne" /\ ~operations[i].document.ok

\* C25 as stated: when an insert record cannot be serialized, execute()
\* returns to its caller, the failure being an error value of the call.
C25_Original ==
    (last_call = "execute" /\ Unserializable) => ~panicked

\* the intent is an update or a delete on the empty filter
OnEmptyFilter(operation) ==
    /\ operation.op \in {"UpdateOne", "DeleteOne", "DeleteMany"}
    /\ is_empty(operation.filter)

NotOnEmptyFilter(operation) == ~OnEmptyFilter(operation)

\* C27: an update or a delete on the empty filter is never an error and
\* never changes what is emitted for the others: at every execute() the
\* call panics exactly when one of the other intents (an insert) does not
\* serialize, as it would without the empty-filter intents, and otherwise
\* the list handed over holds one model for each other intent, in order,
\* with that intent's filter, update document, upsert flag or document.
C27_EmptyFilterSilent ==
    [][IsCall("execute") =>
        LET others == SelectSeq(operations', NotOnEmptyFilter)
        IN  /\ panicked' =
                  (\E i \in DOMAIN others :
                      others[i].op = "InsertOne" /\ ~others[i].document.ok)
            /\ ~panicked' =>
                  /\ Len(write_models') = Len(others)
                  /\ \A i \in DOMAIN others :
                        PrimitiveOf(others[i], write_models'[i])]_vars

\* C27 witness: execute() has returned on a sequence holding an update on
\* the empty filter, a delete on the empty filter and a delete on {a: 1},
\* and the list handed over is that last delete alone.
C27_Witness ==
    /\ Compiled
    /\ Len(operations) = 3
    /\ \E i \in DOMAIN operations :
          operations[i].op = "UpdateOne" /\ is_empty(operations[i].filter)
    /\ \E i \in DOMAIN operations :
          operations[i].op \in {"DeleteOne", "DeleteMany"}
          /\ is_empty(operations[i].filter)
    /\ write_models = << DeleteOneModel(FilterA1) >>

-----------------------------------------------------------------------------
(* A bounded model of the store: a record is a Document, and an update      *)
(* statement {operator: {field: payload}} is applied to it as the store      *)
(* applies $set, $unset, $inc, $mul, $min, $max, $push, $pop and $pullAll.   *)

\* the outcome of a statement the store refuses: one field named under two
\* operators
Rejected == << [k |-> "$rejected", v |-> BsonBoolean(TRUE)] >>

\* a number that has left the 32-bit range: the store widens it, the model
\* only marks it
Beyond == [t |-> "Int64", v |-> 0]

StoreRecords ==
    {EmptyDoc,
     << [k |-> "x", v |-> Int32(7)], [k |-> "n", v |-> Int32(3)],
        [k |-> "tags", v |-> BsonArray(<< Str("b"), Str("a"), Str("c") >>)],
        [k |-> "list", v |-> BsonArray(<< Str("p"), Str("q") >>)] >>}

StoreVariants ==
    {"Set", "Unset", "Inc", "Mul", "Min", "Max", "Push", "Pop", "PullAll"}

StoreAdd(a, b) ==
    IF a.t = "Int32" /\ b.t = "Int32" /\ AddFits(a.v, b.v)
    THEN Int32(a.v + b.v) ELSE Beyond

StoreMul(a, b) ==
    IF a.t = "Int32" /\ b.t = "Int32" /\ MulFits(a.v, b.v)
    THEN Int32(a.v * b.v) ELSE Beyond

StoreMin(a, b) ==
    IF a.t = "Int32" /\ b.t = "Int32"
    THEN (IF b.v < a.v THEN b ELSE a) ELSE Beyond

StoreMax(a, b) ==
    IF a.t = "Int32" /\ b.t = "Int32"
    THEN (IF b.v > a.v THEN b ELSE a) ELSE Beyond

\* the elements $push appends: those of an {$each: [..]} payload, or the
\* payload itself as one element
Pushed(v) ==
    IF v.t = "Document" /\ contains_key(v.v, "$each") /\ get(v.v, "$each").t = "Array"
    THEN get(v.v, "$each").v
    ELSE << v >>

Without(arr, values) ==
    SelectSeq(arr, LAMBDA e : ~ArrContains(values, e))

\* one field of one operator applied to record r
StoreField(operator, r, k, v) ==
    CASE operator = "$set" -> insert(r, k, v)
      [] operator = "$unset" -> SelectSeq(r, LAMBDA e : e.k # k)
      [] operator = "$inc" ->
            IF contains_key(r, k) THEN insert(r, k, StoreAdd(get(r, k), v))
            ELSE insert(r, k, v)
      [] operator = "$mul" ->
            IF contains_key(r, k) THEN insert(r, k, StoreMul(get(r, k), v))
            ELSE insert(r, k, Int32(0))
      [] operator = "$min" ->
            IF contains_key(r, k) THEN insert(r, k, StoreMin(get(r, k), v))
            ELSE insert(r, k, v)
      [] operator = "$max" ->
            IF contains_key(r, k) THEN insert(r, k, StoreMax(get(r, k), v))
            ELSE insert(r, k, v)
      [] operator = "$push" ->
            IF contains_key(r, k)
            THEN insert(r, k, BsonArray(get(r, k).v \o Pushed(v)))
            ELSE insert(r, k, BsonArray(Pushed(v)))
      [] operator = "$pop" ->
            IF contains_key(r, k) /\ Len(get(r, k).v) > 0
            THEN insert(r, k, BsonArray(
                    IF v = Int32(-1) THEN Tail(get(r, k).v)
                    ELSE SubSeq(get(r, k).v, 1, Len(get(r, k).v) - 1)))
            ELSE r
      [] operator = "$pullAll" ->
            IF contains_key(r, k)
            THEN insert(r, k, BsonArray(Without(get(r, k).v, v.v)))
            ELSE r

\* a field is named under two operators of the statement
Conflicting(update) ==
    \E i, j \in DOMAIN update :
        /\ i < j
        /\ \E a \in DOMAIN update[i].v.v, b \in DOMAIN update[j].v.v :
              update[i].v.v[a].k = update[j].v.v[b].k

\* the record after one update statement
RECURSIVE StoreApply(_, _)
StoreApply(update, r) ==
    IF r = Rejected \/ Conflicting(update) THEN Rejected
    ELSE IF Len(update) = 0 THEN r
    ELSE LET fields == update[Len(update)].v.v
             before == StoreApply(SubSeq(update, 1, Len(update) - 1), r)
             RECURSIVE fold(_)
             fold(n) ==
                 IF n = 0 THEN before
                 ELSE StoreField(update[Len(update)].k, fold(n - 1),
                                 fields[n].k, fields[n].v)
         IN  fold(Len(fields))

\* the record after each logged call went out as a statement of its own
RECURSIVE StoreApplyEach(_, _)
StoreApplyEach(log, r) ==
    IF Len(log) = 0 THEN r
    ELSE StoreApply(to_document(log[Len(log)]),
                    StoreApplyEach(SubSeq(log, 1, Len(log) - 1), r))

\* no number of the record has left the 32-bit range
InRange(r) == \A i \in DOMAIN r : r[i].v # Beyond

\* two records hold the same fields with equal values
SameRecord(r1, r2) ==
    /\ Len(r1) = Len(r2)
    /\ \A i \in DOMAIN r1 :
          /\ contains_key(r2, r1[i].k)
          /\ BsonEq(r1[i].v, get(r2, r1[i].k))

\* C21 as stated: for every sequence of Set, Unset, Inc, Mul, Min, Max, Push,
\* Pop and PullAll calls made on one context, the single update compiled
\* from the context changes a record as the calls would, each sent as an
\* update statement of its own in call order.
C21_Original ==
    current_context.kind = "Some" =>
        LET log == own[AsMap(current_context.val.filter)]
            update == update_doc(current_context.val.updates)
        IN  (/\ Len(log) > 0
             /\ \A i \in DOMAIN log : log[i].variant \in StoreVariants)
            => \A r \in StoreRecords :
                  InRange(StoreApplyEach(log, r))
                      => SameRecord(StoreApply(update, r), StoreApplyEach(log, r))

====
